---- MODULE Spec2Model ----
(***************************************************************************)
(* Model of fdxx::JSON (janssonex.hpp), the C++ wrapper over jansson's     *)
(* reference-counted json_t.  Every wrapper method forwards to one jansson *)
(* call; the operators below are named after the jansson function the     *)
(* wrapper line calls and follow jansson 2.14's behaviour for that call.   *)
(*                                                                         *)
(* The heap maps node addresses to json_t records.  true, false and null   *)
(* are jansson's static singletons (refcount (size_t)-1, never counted,    *)
(* never freed).  "own" is the number of counted references the calling    *)
(* program holds to each node: the program only releases or hands over a   *)
(* reference it holds.                                                     *)
(***************************************************************************)
EXTENDS Integers, Sequences, FiniteSets, TLC

VARIABLES heap, own, refs, last, iter, buffer, copies

vars == <<heap, own, refs, last, iter, buffer, copies>>

\* ------------------------------------------------------------------ bounds
MaxNodes == 8
MaxRefs == 3
MaxLen == 3
RefCreates == 1
OwnLen == 2
IterNodes == 3
ArrNodes == 3
ExtLen == 4
RealDigits == 3

\* --------------------------------------------------------------- addresses
NULL == 0
NullNode == 1
TrueNode == 2
FalseNode == 3
RefStatic == -1

Statics == {NullNode, TrueNode, FalseNode}
DynIds == (FalseNode + 1)..(FalseNode + MaxNodes)
Ids == Statics \cup DynIds

\* An integer node holds a json_int_t of 64 bits: num is its low 32 bits read
\* as a signed word, hi the rest, so the value is hi * 2^32 + num and a value
\* that fits in an int has hi = 0.
Blank ==
  [type |-> "none", refcount |-> 0, num |-> 0, hi |-> 0, str |-> <<>>,
   keys |-> <<>>, items |-> <<>>, deleted |-> 0]

StaticNode(t) == [Blank EXCEPT !.type = t, !.refcount = RefStatic]

InitHeap ==
  [n \in Ids |->
     IF n = NullNode THEN StaticNode("null")
     ELSE IF n = TrueNode THEN StaticNode("true")
     ELSE IF n = FalseNode THEN StaticNode("false")
     ELSE Blank]

\* ------------------------------------------------------------ heap helpers
Allocated(h, n) == n \in Ids /\ h[n].type # "none"
Live(h, n) == Allocated(h, n) /\ h[n].deleted = 0
Counted(h, n) == Allocated(h, n) /\ h[n].refcount # RefStatic
FreeIds(h) == {n \in DynIds : h[n].type = "none"}
HasRoom(h, k) == Cardinality(FreeIds(h)) >= k
Fresh(h) == CHOOSE n \in FreeIds(h) : \A m \in FreeIds(h) : n <= m

json_is_object(h, n) == n # NULL /\ h[n].type = "object"
json_is_array(h, n) == n # NULL /\ h[n].type = "array"

\* A new counted node at address n: refcount 1.
NewNode(h, n, t, num, str) ==
  [h EXCEPT ![n] = [Blank EXCEPT !.type = t, !.refcount = 1,
                                  !.num = num, !.str = str]]

\* ------------------------------------------------------- reference counting
json_incref(h, n) ==
  IF n # NULL /\ h[n].refcount # RefStatic
  THEN [h EXCEPT ![n].refcount = @ + 1]
  ELSE h

RECURSIVE json_decref(_, _)
RECURSIVE DecrefAll(_, _)

\* json_delete: frees the node; a container first releases every child.
json_delete(h, n) ==
  DecrefAll([h EXCEPT ![n].deleted = @ + 1, ![n].items = <<>>, ![n].keys = <<>>],
            h[n].items)

DecrefAll(h, s) ==
  IF s = <<>> THEN h ELSE DecrefAll(json_decref(h, Head(s)), Tail(s))

\* A release that frees one reference too early.
json_decref_early(h, n) ==
  IF n = NULL \/ h[n].refcount = RefStatic THEN h
  ELSE LET h1 == [h EXCEPT ![n].refcount = @ - 1]
       IN IF h1[n].refcount <= 1 THEN json_delete(h1, n) ELSE h1

json_decref(h, n) ==
  IF n = NULL \/ h[n].refcount = RefStatic THEN h
  ELSE LET h1 == [h EXCEPT ![n].refcount = @ - 1]
       IN IF h1[n].refcount = 0 THEN json_delete(h1, n) ELSE h1

\* --------------------------------------------------------------- reachability
RECURSIVE Reach(_, _)
RECURSIVE ReachAll(_, _)

\* The nodes of the tree rooted at n (n included).
Reach(h, n) == IF n = NULL THEN {} ELSE {n} \cup ReachAll(h, h[n].items)

ReachAll(h, s) == IF s = <<>> THEN {} ELSE Reach(h, Head(s)) \cup ReachAll(h, Tail(s))

\* How many slots of container c hold node v.
Occ(h, c, v) == Cardinality({i \in 1..Len(h[c].items) : h[c].items[i] = v})

\* ------------------------------------------------------------------- objects
HasKey(h, o, key) == \E i \in 1..Len(h[o].keys) : h[o].keys[i] = key

KeyPos(h, o, key) == CHOOSE i \in 1..Len(h[o].keys) : h[o].keys[i] = key

json_object_get(h, o, key) ==
  IF json_is_object(h, o) /\ HasKey(h, o, key) THEN h[o].items[KeyPos(h, o, key)] ELSE NULL

\* A replacement that moves the replaced key to the end of the order.
hashtable_set_reorder(h, o, key, v) ==
  IF HasKey(h, o, key)
  THEN LET i == KeyPos(h, o, key)
           h1 == json_decref(h, h[o].items[i])
           rest(q) == [j \in 1..(Len(q) - 1) |-> IF j < i THEN q[j] ELSE q[j + 1]]
       IN [h1 EXCEPT ![o].keys = Append(rest(h1[o].keys), key),
                     ![o].items = Append(rest(h1[o].items), v)]
  ELSE [h EXCEPT ![o].keys = Append(@, key), ![o].items = Append(@, v)]

\* hashtable_set: an existing pair has its value released and replaced in place;
\* a new pair goes to the end of the ordered list.
hashtable_set(h, o, key, v) ==
  IF HasKey(h, o, key)
  THEN LET i == KeyPos(h, o, key)
           h1 == json_decref(h, h[o].items[i])
       IN [h1 EXCEPT ![o].items[i] = v]
  ELSE [h EXCEPT ![o].keys = Append(@, key), ![o].items = Append(@, v)]

json_object_set_new(h, o, key, v) ==
  IF v = NULL THEN [h |-> h, ok |-> FALSE]
  ELSE IF ~json_is_object(h, o) \/ o = v THEN [h |-> json_decref(h, v), ok |-> FALSE]
  ELSE [h |-> hashtable_set(h, o, key, v), ok |-> TRUE]

json_object_set(h, o, key, v) == json_object_set_new(json_incref(h, v), o, key, v)

\* -------------------------------------------------------------------- arrays
json_array_size(h, a) == IF json_is_array(h, a) THEN Len(h[a].items) ELSE 0

json_array_get(h, a, index) ==
  IF json_is_array(h, a) /\ index < Len(h[a].items) THEN h[a].items[index + 1] ELSE NULL

\* An insert that makes room by moving the element at index to the end.
array_insert_swap(q, index, v) ==
  [j \in 1..(Len(q) + 1) |->
     IF j <= index THEN q[j]
     ELSE IF j = index + 1 THEN v
     ELSE IF j = Len(q) + 1 THEN q[index + 1]
     ELSE q[j]]

\* The elements with v put at 0-based position index, the later ones moved up.
array_insert(q, index, v) ==
  [j \in 1..(Len(q) + 1) |->
     IF j <= index THEN q[j] ELSE IF j = index + 1 THEN v ELSE q[j - 1]]

\* The elements without the one at 0-based position index, the later ones moved down.
array_remove(q, index) ==
  [j \in 1..(Len(q) - 1) |-> IF j <= index THEN q[j] ELSE q[j + 1]]

json_array_set_new(h, a, index, v) ==
  IF v = NULL THEN [h |-> h, ok |-> FALSE]
  ELSE IF ~json_is_array(h, a) \/ a = v THEN [h |-> json_decref(h, v), ok |-> FALSE]
  ELSE IF index >= Len(h[a].items) THEN [h |-> json_decref(h, v), ok |-> FALSE]
  ELSE LET h1 == json_decref(h, h[a].items[index + 1])
       IN [h |-> [h1 EXCEPT ![a].items[index + 1] = v], ok |-> TRUE]

json_array_set(h, a, index, v) == json_array_set_new(json_incref(h, v), a, index, v)

json_array_append_new(h, a, v) ==
  IF v = NULL THEN [h |-> h, ok |-> FALSE]
  ELSE IF ~json_is_array(h, a) \/ a = v THEN [h |-> json_decref(h, v), ok |-> FALSE]
  ELSE [h |-> [h EXCEPT ![a].items = Append(@, v)], ok |-> TRUE]

\* A share that forgets to take its own reference.
json_array_append_noref(h, a, v) == json_array_append_new(h, a, v)

json_array_append(h, a, v) == json_array_append_new(json_incref(h, v), a, v)

json_array_insert_new(h, a, index, v) ==
  IF v = NULL THEN [h |-> h, ok |-> FALSE]
  ELSE IF ~json_is_array(h, a) \/ a = v THEN [h |-> json_decref(h, v), ok |-> FALSE]
  ELSE IF index > Len(h[a].items) THEN [h |-> json_decref(h, v), ok |-> FALSE]
  ELSE [h |-> [h EXCEPT ![a].items = array_insert(@, index, v)], ok |-> TRUE]

json_array_insert(h, a, index, v) == json_array_insert_new(json_incref(h, v), a, index, v)

json_array_remove(h, a, index) ==
  IF ~json_is_array(h, a) THEN [h |-> h, ok |-> FALSE]
  ELSE IF index >= Len(h[a].items) THEN [h |-> h, ok |-> FALSE]
  ELSE LET h1 == json_decref(h, h[a].items[index + 1])
       IN [h |-> [h1 EXCEPT ![a].items = array_remove(@, index)], ok |-> TRUE]

json_object_del(h, o, key) ==
  IF ~json_is_object(h, o) \/ ~HasKey(h, o, key) THEN [h |-> h, ok |-> FALSE]
  ELSE LET i == KeyPos(h, o, key)
           h1 == json_decref(h, h[o].items[i])
       IN [h |-> [h1 EXCEPT ![o].keys = array_remove(@, i - 1),
                            ![o].items = array_remove(@, i - 1)],
           ok |-> TRUE]

json_object_clear(h, o) ==
  IF ~json_is_object(h, o) THEN [h |-> h, ok |-> FALSE]
  ELSE [h |-> DecrefAll([h EXCEPT ![o].keys = <<>>, ![o].items = <<>>], h[o].items),
        ok |-> TRUE]

json_array_clear(h, a) ==
  IF ~json_is_array(h, a) THEN [h |-> h, ok |-> FALSE]
  ELSE [h |-> DecrefAll([h EXCEPT ![a].items = <<>>], h[a].items), ok |-> TRUE]

\* ------------------------------------------------------------------ deep copy
RECURSIVE TreeSize(_, _)
RECURSIVE TreeSizeAll(_, _)

\* The counted nodes json_deep_copy allocates for the tree at n.
TreeSize(h, n) ==
  IF h[n].refcount = RefStatic THEN 0 ELSE 1 + TreeSizeAll(h, h[n].items)

TreeSizeAll(h, q) == IF q = <<>> THEN 0 ELSE TreeSize(h, Head(q)) + TreeSizeAll(h, Tail(q))

RECURSIVE json_deep_copy(_, _)
RECURSIVE CopyKids(_, _, _, _)

\* A copy that duplicates the container but shares its children.
json_deep_copy_shallow(h, n) ==
  IF h[n].refcount = RefStatic THEN [h |-> h, res |-> n]
  ELSE LET c == Fresh(h)
       IN [h |-> [h EXCEPT ![c] = [h[n] EXCEPT !.refcount = 1]], res |-> c]

\* true, false and null are returned as they are; a scalar is created anew; a
\* container is created empty and filled with copies of its children in order.
json_deep_copy(h, n) ==
  IF h[n].refcount = RefStatic THEN [h |-> h, res |-> n]
  ELSE IF h[n].type \in {"object", "array"}
  THEN LET c == Fresh(h) IN CopyKids(NewNode(h, c, h[n].type, 0, <<>>), n, c, 1)
  ELSE LET c == Fresh(h)
       IN [h |-> [NewNode(h, c, h[n].type, h[n].num, h[n].str)
                    EXCEPT ![c].hi = h[n].hi],
           res |-> c]

CopyKids(h, n, c, i) ==
  IF i > Len(h[n].items) THEN [h |-> h, res |-> c]
  ELSE LET r == json_deep_copy(h, h[n].items[i])
           s == IF h[n].type = "object"
                THEN json_object_set_new(r.h, c, h[n].keys[i], r.res)
                ELSE json_array_append_new(r.h, c, r.res)
       IN CopyKids(s.h, n, c, i + 1)

\* ------------------------------------------------------------ call records
\* What reading a freed node gives, and the buffer before any ToString().
Freed ==
  [type |-> "freed", num |-> 0, hi |-> 0, str |-> <<>>, keys |-> <<>>, items |-> <<>>]
NoFlags == [indent |-> 0, precision |-> 0, encode_any |-> FALSE, embed |-> FALSE]
NoBuffer ==
  [null |-> TRUE, str |-> <<>>, json |-> NULL, flags |-> NoFlags, dumped |-> Freed]

\* What GetValue<T>() returns: a bool, a number (hi and num as in a node, in
\* units or, for a real payload, in hundredths), or a pointer to the node whose
\* text it is; narrowed tells that the conversion to T changed the number.
NoRet ==
  [bool |-> FALSE, hi |-> 0, num |-> 0, unit |-> "one", ptr |-> NULL,
   narrowed |-> FALSE]

NoCall ==
  [op |-> "none", self |-> NULL, key |-> "", index |-> 0, value |-> NULL,
   incref |-> FALSE, mode |-> "", ok |-> TRUE, res |-> NULL, num |-> 0,
   ret |-> NoRet]

\* m_iter points at a pair of the object's ordered list: <<key>> is the pair with
\* that key, <<>> is the null iterator.  snap (the keys when the iterator was
\* constructed) and out (the keys returned so far) record the iteration.
NoIter == [m_json |-> NULL, m_iter |-> <<>>, snap |-> <<>>, out |-> <<>>]

NoRefs == [n \in Ids |-> [creates |-> 0, incs |-> 0, decs |-> 0]]

\* A step that changes the heap, the program's references and the call record.
Step(h, o, l) ==
  /\ heap' = h
  /\ own' = o
  /\ last' = l
  /\ UNCHANGED <<iter, buffer, copies>>

Init ==
  /\ heap = InitHeap
  /\ own = [n \in Ids |-> 0]
  /\ refs = NoRefs
  /\ last = NoCall
  /\ iter = NoIter
  /\ buffer = NoBuffer
  /\ copies = {}

\* ----------------------------------------------------------------- factory
\* Returning node n from a factory: the program holds one more reference.
Made(h, n, op) ==
  /\ Step(h, [own EXCEPT ![n] = @ + 1], [NoCall EXCEPT !.op = op, !.res = n])
  /\ refs' = [refs EXCEPT ![n].creates = @ + 1]

Creations == refs[NullNode].creates + refs[TrueNode].creates + refs[FalseNode].creates
             + Cardinality(DynIds \ FreeIds(heap))

json_boolean(b) == IF b THEN TrueNode ELSE FalseNode

Create_bool(b) ==
  /\ Made(heap, json_boolean(b), "Create")

Create_int(v) ==
  /\ HasRoom(heap, 1)
  /\ LET n == Fresh(heap) IN Made(NewNode(heap, n, "integer", v, <<>>), n, "Create")

Create_real(v) ==
  /\ HasRoom(heap, 1)
  /\ LET n == Fresh(heap) IN Made(NewNode(heap, n, "real", v, <<>>), n, "Create")

Create_string(s) ==
  /\ HasRoom(heap, 1)
  /\ LET n == Fresh(heap) IN Made(NewNode(heap, n, "string", 0, s), n, "Create")

CreateNull ==
  /\ Made(heap, NullNode, "CreateNull")

CreateObject ==
  /\ HasRoom(heap, 1)
  /\ LET n == Fresh(heap) IN Made(NewNode(heap, n, "object", 0, <<>>), n, "CreateObject")

CreateArray ==
  /\ HasRoom(heap, 1)
  /\ LET n == Fresh(heap) IN Made(NewNode(heap, n, "array", 0, <<>>), n, "CreateArray")

\* ------------------------------------------------------- incref and decref
\* The program may retain any node it holds, and release only what it holds.
incref(n) ==
  /\ own[n] > 0
  /\ refs[n].incs < MaxRefs
  /\ Step(json_incref(heap, n), [own EXCEPT ![n] = @ + 1],
          [NoCall EXCEPT !.op = "incref", !.self = n, !.res = n])
  /\ refs' = [refs EXCEPT ![n].incs = @ + 1]

decref(n) ==
  /\ own[n] > 0
  /\ Step(json_decref(heap, n), [own EXCEPT ![n] = @ - 1],
          [NoCall EXCEPT !.op = "decref", !.self = n])
  /\ refs' = [refs EXCEPT ![n].decs = @ + 1]

\* ------------------------------------------------------- reference counting
RefRoom == Creations < RefCreates

NextRef ==
  \/ RefRoom /\ \E b \in BOOLEAN : Create_bool(b)
  \/ RefRoom /\ \E v \in {7} : Create_int(v)
  \/ RefRoom /\ \E v \in {1500} : Create_real(v)
  \/ RefRoom /\ \E s \in {<<"s", "t", "r">>} : Create_string(s)
  \/ RefRoom /\ CreateNull
  \/ RefRoom /\ CreateObject
  \/ RefRoom /\ CreateArray
  \/ \E n \in Ids : incref(n)
  \/ \E n \in Ids : decref(n)

SpecRef == Init /\ [][NextRef]_vars

\* The node was returned by exactly one factory call and sits in no container.
CreatedOnce(n) == refs[n].creates = 1

\* n incref() calls then n+1 decref() calls free the node exactly once, and not
\* before the last of them.
FreedByLastRelease(n) ==
  /\ refs[n].decs <= refs[n].incs => heap[n].deleted = 0
  /\ refs[n].decs = refs[n].incs + 1 => heap[n].deleted = 1

\* C1 (as stated): every node a factory operation returns, Create(bool) and
\* CreateNull included, is alive while its decref() calls do not exceed its
\* incref() calls and is freed exactly once by the release after that.
C1_AllFactoryNodes ==
  \A n \in Ids : CreatedOnce(n) => FreedByLastRelease(n)

\* C1 (amended): the counted nodes (integer, real, string, object, array) are
\* alive through the first n releases and freed exactly once by release n+1;
\* the true, false and null nodes Create(bool) and CreateNull return are
\* static, their count never moves and they are never freed.
C1_CountedNodes ==
  /\ \A n \in DynIds : CreatedOnce(n) => FreedByLastRelease(n)
  /\ \A n \in Statics : heap[n].deleted = 0 /\ heap[n].refcount = RefStatic

\* A counted node after 2 incref() and 3 decref() calls.
C1_Witness ==
  \E n \in DynIds :
    /\ CreatedOnce(n) /\ refs[n].incs = 2 /\ refs[n].decs = 3
    /\ heap[n].deleted = 1

\* ------------------------------------------------------ container mutations
\* The program passes pointers to live nodes; it hands over (incref = false)
\* only a reference it holds, and never puts a container inside its own subtree
\* (jansson leaves circular references to the caller).
Holds(n) == n \in Statics \/ own[n] > 0
Give(n) == IF Counted(heap, n) THEN [own EXCEPT ![n] = @ - 1] ELSE own
MayPass(self, value, inc) ==
  /\ Live(heap, self) /\ Live(heap, value)
  /\ inc \/ Holds(value)
  /\ value = self \/ self \notin Reach(heap, value)

Call(h, o, l) == Step(h, o, l) /\ UNCHANGED refs

Set_key(self, key, value, inc) ==
  /\ MayPass(self, value, inc)
  /\ LET r == IF inc THEN json_object_set(heap, self, key, value)
              ELSE json_object_set_new(heap, self, key, value)
     IN Call(r.h, IF inc THEN own ELSE Give(value),
             [NoCall EXCEPT !.op = "Set_key", !.self = self, !.key = key,
                            !.value = value, !.incref = inc, !.ok = r.ok])

Set_index(self, index, value, inc) ==
  /\ MayPass(self, value, inc)
  /\ LET r == IF inc THEN json_array_set(heap, self, index, value)
              ELSE json_array_set_new(heap, self, index, value)
     IN Call(r.h, IF inc THEN own ELSE Give(value),
             [NoCall EXCEPT !.op = "Set_index", !.self = self, !.index = index,
                            !.value = value, !.incref = inc, !.ok = r.ok])

Push(self, value, inc) ==
  /\ MayPass(self, value, inc)
  /\ LET r == IF inc THEN json_array_append(heap, self, value)
              ELSE json_array_append_new(heap, self, value)
     IN Call(r.h, IF inc THEN own ELSE Give(value),
             [NoCall EXCEPT !.op = "Push", !.self = self,
                            !.value = value, !.incref = inc, !.ok = r.ok])

Insert(self, index, value, inc) ==
  /\ MayPass(self, value, inc)
  /\ LET r == IF inc THEN json_array_insert(heap, self, index, value)
              ELSE json_array_insert_new(heap, self, index, value)
     IN Call(r.h, IF inc THEN own ELSE Give(value),
             [NoCall EXCEPT !.op = "Insert", !.self = self, !.index = index,
                            !.value = value, !.incref = inc, !.ok = r.ok])

\* ------------------------------------------------ sharing and adopting children
Keys == {"a", "b", "c"}

Objects == {n \in DynIds : Live(heap, n) /\ heap[n].type = "object"}
Arrays == {n \in DynIds : Live(heap, n) /\ heap[n].type = "array"}

Grows(self, bound) == Len(heap[self].items) < bound
OwnValues == DynIds \cup {NullNode}

\* The program has created an array, an object and an integer, and holds one
\* reference to each.
OwnArray == FalseNode + 1
OwnObject == FalseNode + 2
OwnChild == FalseNode + 3

InitOwn ==
  /\ heap = NewNode(NewNode(NewNode(InitHeap, OwnArray, "array", 0, <<>>),
                            OwnObject, "object", 0, <<>>),
                    OwnChild, "integer", 7, <<>>)
  /\ own = [n \in Ids |-> IF n \in {OwnArray, OwnObject, OwnChild} THEN 1 ELSE 0]
  /\ refs = [n \in Ids |-> [creates |-> own[n], incs |-> 0, decs |-> 0]]
  /\ last = NoCall
  /\ iter = NoIter
  /\ buffer = NoBuffer
  /\ copies = {}

NextOwn ==
  \/ \E self \in Objects, value \in OwnValues, inc \in BOOLEAN :
       (HasKey(heap, self, "a") \/ Grows(self, OwnLen)) /\ Set_key(self, "a", value, inc)
  \/ \E self \in Arrays, value \in OwnValues, inc \in BOOLEAN :
       \E i \in 0..(Len(heap[self].items) - 1) : Set_index(self, i, value, inc)
  \/ \E self \in Arrays, value \in OwnValues, inc \in BOOLEAN :
       Grows(self, OwnLen) /\ Push(self, value, inc)
  \/ \E self \in Arrays, value \in OwnValues, inc \in BOOLEAN :
       \E i \in 0..Len(heap[self].items) :
         Grows(self, OwnLen) /\ Insert(self, i, value, inc)
  \/ \E n \in DynIds : decref(n)

SpecOwn == InitOwn /\ [][NextOwn]_vars

MutOps == {"Set_key", "Set_index", "Push", "Insert"}
Containers == {"object", "array"}

\* The child the called slot held before the step (NULL for a new slot).
Replaced ==
  IF last'.op = "Set_key" THEN json_object_get(heap, last'.self, last'.key)
  ELSE IF last'.op = "Set_index" THEN json_array_get(heap, last'.self, last'.index)
  ELSE NULL

\* The containers a decref() step frees.
FreedNow == {c \in DynIds : /\ last'.op = "decref"
                            /\ heap[c].type \in Containers
                            /\ heap[c].deleted = 0 /\ heap'[c].deleted = 1}

ChildrenOf(c) == {heap[c].items[i] : i \in 1..Len(heap[c].items)}

\* C2 (as stated): a successful Set(key), Set(index), Push or Insert with
\* incref=true raises the child's count by exactly one and the caller's reference
\* survives the container; with incref=false the count is unchanged, the
\* container is the only counted owner, and releasing the container frees the child.
C2_AnyChild ==
  [][/\ (last'.op \in MutOps /\ last'.ok) =>
         LET v == last'.value
         IN IF last'.incref
            THEN heap'[v].refcount = heap[v].refcount + 1
            ELSE /\ heap'[v].refcount = heap[v].refcount
                 /\ heap'[v].refcount = Occ(heap', last'.self, v)
     /\ \A c \in FreedNow : \A v \in ChildrenOf(c) :
          /\ own'[v] > 0 => Live(heap', v)
          /\ heap[v].refcount = Occ(heap, c, v) => heap'[v].deleted = 1]_vars

\* C2 (amended): for a counted child that is no part of the value the call
\* replaces, a successful call with incref=true raises the count by one and leaves
\* the caller's reference in place; with incref=false the count is unchanged
\* and the caller's reference passes to the container.  When a container is
\* freed, a child the caller still holds stays alive and a child held by that
\* container alone is freed exactly once.  true, false and null are never
\* counted and never freed.
C2_CountedChild ==
  [][/\ (last'.op \in MutOps /\ last'.ok) =>
         LET v == last'.value
         IN IF ~Counted(heap, v) THEN heap'[v] = heap[v]
            ELSE IF v \in Reach(heap, Replaced) THEN TRUE
            ELSE IF last'.incref
            THEN heap'[v].refcount = heap[v].refcount + 1 /\ own'[v] = own[v]
            ELSE heap'[v].refcount = heap[v].refcount /\ own'[v] = own[v] - 1
     /\ \A c \in FreedNow : \A v \in ChildrenOf(c) :
          IF ~Counted(heap, v) THEN heap'[v] = heap[v]
          ELSE /\ own'[v] > 0 => Live(heap', v)
               /\ heap[v].refcount = Occ(heap, c, v) => heap'[v].deleted = 1]_vars

\* A container was released and took with it a child the program had handed
\* over and never released itself.
C2_Witness ==
  /\ last.op = "decref"
  /\ heap[last.self].type \in Containers /\ heap[last.self].deleted = 1
  /\ \E v \in DynIds : heap[v].deleted = 1 /\ refs[v].decs = 0

\* ------------------------------------------------ SetValue and SetNullValue
\* Create(value) allocates the node that json_object_set_new then takes over.
SetValue_key(self, key, v) ==
  /\ Live(heap, self) /\ HasRoom(heap, 1)
  /\ LET n == Fresh(heap)
         r == json_object_set_new(NewNode(heap, n, "integer", v, <<>>), self, key, n)
     IN Call(r.h, own,
             [NoCall EXCEPT !.op = "SetValue_key", !.self = self, !.key = key,
                            !.value = n, !.num = v, !.ok = r.ok])

SetNullValue_key(self, key) ==
  /\ Live(heap, self)
  /\ LET r == json_object_set_new(heap, self, key, NullNode)
     IN Call(r.h, own,
             [NoCall EXCEPT !.op = "SetNullValue_key", !.self = self, !.key = key,
                            !.value = NullNode, !.ok = r.ok])

\* ------------------------------------------------------------ JSONObjectKeys
json_object_iter(h, o) ==
  IF json_is_object(h, o) /\ h[o].keys # <<>> THEN <<h[o].keys[1]>> ELSE <<>>

json_object_iter_next(h, o, it) ==
  IF it = <<>> THEN <<>>
  ELSE LET i == KeyPos(h, o, it[1])
       IN IF i = Len(h[o].keys) THEN <<>> ELSE <<h[o].keys[i + 1]>>

json_object_iter_value(h, o, it) ==
  IF it = <<>> THEN NULL ELSE h[o].items[KeyPos(h, o, it[1])]

JSONObjectKeys(json) ==
  /\ Live(heap, json)
  /\ iter' = [m_json |-> json, m_iter |-> json_object_iter(heap, json),
              snap |-> heap[json].keys, out |-> <<>>]
  /\ last' = [NoCall EXCEPT !.op = "JSONObjectKeys", !.self = json]
  /\ UNCHANGED <<heap, own, refs, buffer, copies>>

\* GetKeyValue(&key, &value) when want, GetKeyValue(&key) otherwise.
GetKeyValue(want) ==
  /\ iter.m_json # NULL
  /\ LET value == IF want THEN json_object_iter_value(heap, iter.m_json, iter.m_iter)
                  ELSE NULL
     IN IF iter.m_iter = <<>> \/ (want /\ value = NULL)
        THEN /\ last' = [NoCall EXCEPT !.op = "GetKeyValue", !.self = iter.m_json,
                                       !.ok = FALSE]
             /\ UNCHANGED iter
        ELSE /\ last' = [NoCall EXCEPT !.op = "GetKeyValue", !.self = iter.m_json,
                                       !.key = iter.m_iter[1], !.res = value,
                                       !.ok = TRUE]
             /\ iter' = [iter EXCEPT
                           !.m_iter = json_object_iter_next(heap, iter.m_json, iter.m_iter),
                           !.out = Append(@, iter.m_iter[1])]
  /\ UNCHANGED <<heap, own, refs, buffer, copies>>

\* ------------------------------------------------------ iterating an object
\* The program has created an object and an integer to share into it.
IterObject == FalseNode + 1
IterChild == FalseNode + 2

InitIter ==
  /\ heap = NewNode(NewNode(InitHeap, IterObject, "object", 0, <<>>),
                    IterChild, "integer", 7, <<>>)
  /\ own = [n \in Ids |-> IF n \in {IterObject, IterChild} THEN 1 ELSE 0]
  /\ refs = [n \in Ids |-> [creates |-> own[n], incs |-> 0, decs |-> 0]]
  /\ last = NoCall
  /\ iter = NoIter
  /\ buffer = NoBuffer
  /\ copies = {}

Created == Cardinality(DynIds \ FreeIds(heap))

NextIter ==
  \/ \E key \in Keys : Created < IterNodes /\ SetValue_key(IterObject, key, 1)
  \/ \E key \in Keys : SetNullValue_key(IterObject, key)
  \/ \E key \in Keys : Set_key(IterObject, key, IterChild, TRUE)
  \/ JSONObjectKeys(IterObject)
  \/ \E want \in BOOLEAN : GetKeyValue(want)

SpecIter == InitIter /\ [][NextIter]_vars

SetOps == {"Set_key", "SetValue_key", "SetNullValue_key"}

\* C3: a successful Set/SetValue/SetNullValue keeps every present key at its
\* position and puts a new key last, so the key list is the order of first
\* insertion; and on an object not changed since the iterator was constructed,
\* GetKeyValue returns true with the next key of that list (and its value) once
\* per key, and false on every call after the last key.
C3_InsertionOrder ==
  [][/\ (last'.op \in SetOps /\ last'.ok) =>
         LET o == last'.self
             k == last'.key
         IN /\ heap'[o].keys = IF HasKey(heap, o, k) THEN heap[o].keys
                                ELSE Append(heap[o].keys, k)
            /\ heap'[o].items[KeyPos(heap', o, k)] = last'.value
            /\ \A i \in 1..Len(heap[o].keys) :
                 heap[o].keys[i] # k => heap'[o].items[i] = heap[o].items[i]
     /\ (last'.op = "GetKeyValue" /\ heap[iter.m_json].keys = iter.snap) =>
         LET o == iter.m_json
             n == Len(iter.out)
         IN IF n < Len(heap[o].keys)
            THEN /\ last'.ok
                 /\ last'.key = heap[o].keys[n + 1]
                 /\ last'.res \in {NULL, heap[o].items[n + 1]}
                 /\ iter'.out = Append(iter.out, last'.key)
            ELSE ~last'.ok /\ iter'.out = iter.out /\ iter.out = heap[o].keys]_vars

\* Keys a, c, b were inserted in that order, c's value was replaced, and the
\* iterator has returned all three and then reported the end.
C3_Witness ==
  /\ last.op = "GetKeyValue" /\ ~last.ok
  /\ iter.out = <<"a", "c", "b">>
  /\ heap[IterObject].keys = iter.snap
  /\ heap[IterObject].items[1] = NullNode
  /\ heap[heap[IterObject].items[2]].deleted = 0
  /\ \E n \in DynIds : heap[n].deleted = 1

\* ------------------------------------------------------ array value methods
json_integer_value(h, n) == IF n # NULL /\ h[n].type = "integer" THEN h[n].num ELSE 0

InsertValue(self, index, v) ==
  /\ Live(heap, self) /\ HasRoom(heap, 1)
  /\ LET n == Fresh(heap)
         r == json_array_insert_new(NewNode(heap, n, "integer", v, <<>>), self, index, n)
     IN Call(r.h, own,
             [NoCall EXCEPT !.op = "InsertValue", !.self = self, !.index = index,
                            !.value = n, !.num = v, !.ok = r.ok])

PushValue(self, v) ==
  /\ Live(heap, self) /\ HasRoom(heap, 1)
  /\ LET n == Fresh(heap)
         r == json_array_append_new(NewNode(heap, n, "integer", v, <<>>), self, n)
     IN Call(r.h, own,
             [NoCall EXCEPT !.op = "PushValue", !.self = self,
                            !.value = n, !.num = v, !.ok = r.ok])

Remove_index(self, index) ==
  /\ Live(heap, self)
  /\ LET r == json_array_remove(heap, self, index)
     IN Call(r.h, own,
             [NoCall EXCEPT !.op = "Remove_index", !.self = self, !.index = index,
                            !.ok = r.ok])

\* GetValue<int>(index) is (*this)[index].GetValue<int>().  In range it reads the
\* element.  Out of range json_array_get returns nullptr and operator[] binds a
\* reference to *nullptr, which is undefined: the build either passes the null
\* on to json_integer_value (which answers 0) or traps.
GetValue_index(self, index) ==
  /\ Live(heap, self)
  /\ LET e == json_array_get(heap, self, index)
         got == [NoCall EXCEPT !.op = "GetValue_index", !.self = self,
                               !.index = index, !.res = e,
                               !.num = json_integer_value(heap, e)]
     IN IF e # NULL
        THEN last' = got
        ELSE last' \in {got, [got EXCEPT !.op = "abort"]}
  /\ UNCHANGED <<heap, own, refs, iter, buffer, copies>>

\* --------------------------------------------------------- one array's calls
\* The program has created an array and holds it.
TheArray == FalseNode + 1

InitArr ==
  /\ heap = NewNode(InitHeap, TheArray, "array", 0, <<>>)
  /\ own = [n \in Ids |-> IF n = TheArray THEN 1 ELSE 0]
  /\ refs = [n \in Ids |-> [creates |-> own[n], incs |-> 0, decs |-> 0]]
  /\ last = NoCall
  /\ iter = NoIter
  /\ buffer = NoBuffer
  /\ copies = {}

Running == last.op # "abort"
ArrInts == {0, 10}
ArrValues == {NullNode, TrueNode}
Around(self) == 0..(Len(heap[self].items) + 1)

NextArr ==
  \/ \E i \in Around(TheArray), v \in ArrInts :
       /\ Running /\ Created < ArrNodes /\ Grows(TheArray, MaxLen)
       /\ InsertValue(TheArray, i, v)
  \/ \E i \in Around(TheArray), x \in ArrValues :
       /\ Running /\ (Grows(TheArray, MaxLen) \/ i > Len(heap[TheArray].items))
       /\ Insert(TheArray, i, x, FALSE)
  \/ \E i \in Around(TheArray), x \in ArrValues :
       Running /\ Set_index(TheArray, i, x, FALSE)
  \/ \E i \in Around(TheArray) : Running /\ Remove_index(TheArray, i)
  \/ \E i \in Around(TheArray) : Running /\ GetValue_index(TheArray, i)

SpecArr == InitArr /\ [][NextArr]_vars

InsertOps == {"Insert", "InsertValue"}

\* C4: on an array of size n, Insert/InsertValue(i, x) with i <= n succeeds and
\* yields a[0..i-1], x, a[i..n-1]; Remove(i) with i < n succeeds and yields
\* a[0..i-1], a[i+1..n-1]; the elements that stay are the same nodes, unchanged.
C4_Shift ==
  [][LET a == last'.self
         i == last'.index
         q == heap[a].items
         p == heap'[a].items
     IN /\ (last'.op \in InsertOps /\ i <= Len(q)) =>
             /\ last'.ok
             /\ Len(p) = Len(q) + 1
             /\ \A j \in 1..i : p[j] = q[j]
             /\ p[i + 1] = last'.value
             /\ \A j \in (i + 1)..Len(q) : p[j + 1] = q[j]
             /\ \A j \in 1..Len(q) : heap'[q[j]] = heap[q[j]]
             /\ last'.op = "InsertValue" =>
                  heap'[p[i + 1]].type = "integer" /\ heap'[p[i + 1]].num = last'.num
        /\ (last'.op = "Remove_index" /\ i < Len(q)) =>
             /\ last'.ok
             /\ Len(p) = Len(q) - 1
             /\ \A j \in 1..i : p[j] = q[j]
             /\ \A j \in (i + 2)..Len(q) : p[j - 1] = q[j]
             /\ \A j \in 1..Len(p) : heap'[p[j]] = heap[p[j]]]_vars

\* InsertValue(1, x) has just put x between the first element and two later ones.
C4_Witness ==
  /\ last.op = "InsertValue" /\ last.ok /\ last.index = 1
  /\ Len(heap[TheArray].items) >= 3
  /\ heap[TheArray].items[2] = last.value

\* C5: on an array of size n, Get (GetValue<int>(index)), Set and Remove with
\* index >= n and Insert with index > n report failure through the returned
\* value (for GetValue<int>, a value no stored integer can have) and leave the
\* elements and the size unchanged; Insert with index == n succeeds and appends.
C5_OutOfRange ==
  [][LET a == last'.self
         i == last'.index
         q == heap[a].items
     IN /\ (last'.op \in {"Set_index", "Remove_index"} /\ i >= Len(q)) =>
             ~last'.ok /\ heap'[a].items = q
        /\ (last'.op \in InsertOps /\ i > Len(q)) =>
             ~last'.ok /\ heap'[a].items = q
        /\ (last'.op \in InsertOps /\ i = Len(q)) =>
             last'.ok /\ heap'[a].items = Append(q, last'.value)
        /\ (last'.op \in {"GetValue_index", "abort"} /\ i >= Len(q)) =>
             /\ last'.op = "GetValue_index"
             /\ last'.num \notin ArrInts
             /\ heap'[a].items = q]_vars

\* ---------------------------------------------------- DeepCopy and removals
DeepCopy(self) ==
  /\ Live(heap, self) /\ HasRoom(heap, TreeSize(heap, self))
  /\ LET r == json_deep_copy(heap, self)
     IN /\ heap' = r.h
        /\ own' = IF Counted(r.h, r.res) THEN [own EXCEPT ![r.res] = @ + 1] ELSE own
        /\ last' = [NoCall EXCEPT !.op = "DeepCopy", !.self = self, !.res = r.res]
        /\ copies' = copies \cup {<<self, r.res>>}
  /\ UNCHANGED <<refs, iter, buffer>>

Remove_key(self, key) ==
  /\ Live(heap, self)
  /\ LET r == json_object_del(heap, self, key)
     IN Call(r.h, own,
             [NoCall EXCEPT !.op = "Remove_key", !.self = self, !.key = key, !.ok = r.ok])

ObjClear(self) ==
  /\ Live(heap, self)
  /\ LET r == json_object_clear(heap, self)
     IN Call(r.h, own, [NoCall EXCEPT !.op = "ObjClear", !.self = self, !.ok = r.ok])

ArrClear(self) ==
  /\ Live(heap, self)
  /\ LET r == json_array_clear(heap, self)
     IN Call(r.h, own, [NoCall EXCEPT !.op = "ArrClear", !.self = self, !.ok = r.ok])

\* ------------------------------------------------- a tree and its deep copies
\* The program has built {"b": [7, true], "a": null} and holds its root.
SrcRoot == FalseNode + 1
SrcArray == FalseNode + 2
SrcInt == FalseNode + 3

SrcHeap ==
  [NewNode(NewNode(NewNode(InitHeap, SrcRoot, "object", 0, <<>>),
                   SrcArray, "array", 0, <<>>),
           SrcInt, "integer", 7, <<>>)
     EXCEPT ![SrcRoot].keys = <<"b", "a">>,
            ![SrcRoot].items = <<SrcArray, NullNode>>,
            ![SrcArray].items = <<SrcInt, TrueNode>>]

InitCopy ==
  /\ heap = SrcHeap
  /\ own = [n \in Ids |-> IF n = SrcRoot THEN 1 ELSE 0]
  /\ refs = [n \in Ids |-> [creates |-> IF n \in {SrcRoot, SrcArray, SrcInt} THEN 1 ELSE 0,
                            incs |-> 0, decs |-> 0]]
  /\ last = NoCall
  /\ iter = NoIter
  /\ buffer = NoBuffer
  /\ copies = {}

\* The roots the program holds, and a size no array of the scenario exceeds.
Roots == {n \in DynIds : Live(heap, n) /\ own[n] > 0}
SrcLen == Len(SrcHeap[SrcArray].items)

\* The program copies the tree once and then changes or releases either tree.
Copied == copies # {}

NextCopy ==
  \/ ~Copied /\ DeepCopy(SrcRoot)
  \/ \E self \in Objects : Copied /\ SetNullValue_key(self, "b")
  \/ \E self \in Objects, key \in {"a", "b"} : Copied /\ Remove_key(self, key)
  \/ \E self \in Objects : Copied /\ ObjClear(self)
  \/ \E self \in Arrays : Copied /\ Grows(self, SrcLen) /\ Push(self, FalseNode, FALSE)
  \/ \E self \in Arrays : Copied /\ Grows(self, SrcLen) /\ Insert(self, 0, NullNode, FALSE)
  \/ \E self \in Arrays : Copied /\ Set_index(self, 0, NullNode, FALSE)
  \/ \E self \in Arrays : \E i \in 0..Len(heap[self].items) :
       Copied /\ Remove_index(self, i)
  \/ \E self \in Arrays : Copied /\ ArrClear(self)
  \/ \E n \in Roots : Copied /\ decref(n)

SpecCopy == InitCopy /\ [][NextCopy]_vars

\* The value a node stands for: its type, scalar value, keys in iteration order
\* and the values of its children in order; "freed" for a node that was deleted.
RECURSIVE Contents(_, _)
ContentsAll(h, q) == [i \in 1..Len(q) |-> Contents(h, q[i])]
Contents(h, n) ==
  IF n = NULL \/ h[n].deleted = 1
  THEN Freed
  ELSE [type |-> h[n].type, num |-> h[n].num, hi |-> h[n].hi, str |-> h[n].str,
        keys |-> h[n].keys, items |-> ContentsAll(h, h[n].items)]

\* A DeepCopy() step returns a tree of new nodes that is deep-equal to the
\* source, keys in the source's order, and shares with it only nodes of
\* `shared`; afterwards a call on a node of one tree, or the release of its
\* root, leaves the contents of the other tree as they were.
CopyFrame(shared) ==
  /\ last'.op = "DeepCopy" =>
       LET s == last'.self
           d == last'.res
       IN /\ Contents(heap', d) = Contents(heap, s)
          /\ Contents(heap', s) = Contents(heap, s)
          /\ Reach(heap', d) \cap Reach(heap', s) \subseteq shared
          /\ \A n \in Reach(heap', d) \ shared : ~Allocated(heap, n)
  /\ last'.op # "DeepCopy" =>
       \A p \in copies :
         /\ last'.self \in Reach(heap, p[2]) =>
              Contents(heap', p[1]) = Contents(heap, p[1])
         /\ last'.self \in Reach(heap, p[1]) =>
              Contents(heap', p[2]) = Contents(heap, p[2])

\* C6 (as stated): DeepCopy() of a nested object/array tree returns a deep-equal
\* tree, keys in the source's insertion order, that shares no node at all with
\* the source, and calls on either tree (or its release) leave the other one
\* unchanged.
C6_SharesNoNode == [][CopyFrame({})]_vars

\* C6 (amended): DeepCopy() returns a deep-equal tree, keys in the source's
\* insertion order, in which every integer, real, string, object and array
\* node is new; the only nodes the two trees share are the static true, false
\* and null values. Set/Push/Insert/Remove/Clear calls on either tree, and the
\* release of either root, leave the contents of the other tree unchanged.
C6_SharesOnlyStatics == [][CopyFrame(Statics)]_vars

\* The nested array of the copy was overwritten while the source still reads
\* {"b": [7, true], "a": null}.
C6_Witness ==
  \E p \in copies :
    /\ last.op = "Set_index" /\ last.ok
    /\ last.self \in Reach(heap, p[2]) \ {p[2]}
    /\ Contents(heap, p[1]) = Contents(SrcHeap, SrcRoot)
    /\ Contents(heap, p[2]) # Contents(heap, p[1])

\* ------------------------------------------------------------------- Update
\* json_object_update and its variants walk other's pairs in iteration order:
\* "existing" skips a key the object lacks, "missing" skips a key it has,
\* "recursive" merges into the object's value when both values are objects;
\* every other pair is stored with json_object_set (a shared reference).
RECURSIVE do_object_update(_, _, _, _, _)
do_object_update(h, object, other, i, how) ==
  IF i > Len(h[other].keys) THEN [h |-> h, ok |-> TRUE]
  ELSE LET key == h[other].keys[i]
           value == h[other].items[i]
           v == json_object_get(h, object, key)
           r == IF (how = "existing" /\ v = NULL) \/ (how = "missing" /\ v # NULL)
                THEN [h |-> h, ok |-> TRUE]
                ELSE IF how = "recursive" /\ json_is_object(h, v) /\ json_is_object(h, value)
                THEN do_object_update(h, v, value, 1, how)
                ELSE json_object_set(h, object, key, value)
       IN IF r.ok THEN do_object_update(r.h, object, other, i + 1, how) ELSE r

object_update(h, object, other, how) ==
  IF ~json_is_object(h, object) \/ ~json_is_object(h, other)
  THEN [h |-> h, ok |-> FALSE]
  ELSE do_object_update(h, object, other, 1, how)

json_object_update(h, object, other) == object_update(h, object, other, "all")

\* An update that also adds the keys the object lacks.
json_object_update_existing_all(h, object, other) ==
  object_update(h, object, other, "all")

json_object_update_existing(h, object, other) ==
  object_update(h, object, other, "existing")

json_object_update_missing(h, object, other) ==
  object_update(h, object, other, "missing")

json_object_update_recursive(h, object, other) ==
  object_update(h, object, other, "recursive")

\* An update that leaves the reference to other with the caller.
json_object_update_new_kept(h, object, other) == json_object_update(h, object, other)

\* The _new variants run the update and then release other, whatever it returned.
json_object_update_new(h, object, other) ==
  LET r == json_object_update(h, object, other)
  IN [h |-> json_decref(r.h, other), ok |-> r.ok]

json_object_update_existing_new(h, object, other) ==
  LET r == json_object_update_existing(h, object, other)
  IN [h |-> json_decref(r.h, other), ok |-> r.ok]

json_object_update_missing_new(h, object, other) ==
  LET r == json_object_update_missing(h, object, other)
  IN [h |-> json_decref(r.h, other), ok |-> r.ok]

ObjectUpdateType ==
  {"OU_NONE", "OU_EXISTING", "OU_MISSING", "OU_NEW", "OU_EXISTING_NEW",
   "OU_MISSING_NEW", "OU_RECURSIVE"}
NewTypes == {"OU_NEW", "OU_EXISTING_NEW", "OU_MISSING_NEW"}

Update(self, other, Type) ==
  /\ Live(heap, self) /\ Live(heap, other)
  /\ Type \in NewTypes => Holds(other)
  /\ LET r == CASE Type = "OU_NONE" -> json_object_update(heap, self, other)
                [] Type = "OU_EXISTING" -> json_object_update_existing(heap, self, other)
                [] Type = "OU_MISSING" -> json_object_update_missing(heap, self, other)
                [] Type = "OU_NEW" -> json_object_update_new(heap, self, other)
                [] Type = "OU_EXISTING_NEW" ->
                     json_object_update_existing_new(heap, self, other)
                [] Type = "OU_MISSING_NEW" ->
                     json_object_update_missing_new(heap, self, other)
                [] Type = "OU_RECURSIVE" -> json_object_update_recursive(heap, self, other)
                [] OTHER -> [h |-> heap, ok |-> FALSE]
     IN Call(r.h, IF Type \in NewTypes THEN Give(other) ELSE own,
             [NoCall EXCEPT !.op = "Update", !.self = self, !.value = other,
                            !.mode = Type, !.ok = r.ok])

\* ------------------------------------------------ two objects and a scalar
\* The program holds the target {"a": 1, "b": 2}, an integer, and two
\* references (one from incref()) to the other object {"b": 9, "c": null}.
UpdTarget == FalseNode + 1
UpdOne == FalseNode + 2
UpdTwo == FalseNode + 3
UpdOther == FalseNode + 4
UpdNine == FalseNode + 5
UpdScalar == FalseNode + 6
UpdRoots == {UpdTarget, UpdOther, UpdScalar}

UpdHeap ==
  [NewNode(NewNode(NewNode(NewNode(NewNode(NewNode(InitHeap,
      UpdTarget, "object", 0, <<>>), UpdOne, "integer", 1, <<>>),
      UpdTwo, "integer", 2, <<>>), UpdOther, "object", 0, <<>>),
      UpdNine, "integer", 9, <<>>), UpdScalar, "integer", 5, <<>>)
     EXCEPT ![UpdTarget].keys = <<"a", "b">>,
            ![UpdTarget].items = <<UpdOne, UpdTwo>>,
            ![UpdOther].refcount = 2,
            ![UpdOther].keys = <<"b", "c">>,
            ![UpdOther].items = <<UpdNine, NullNode>>]

InitUpd ==
  /\ heap = UpdHeap
  /\ own = [n \in Ids |-> IF n \in UpdRoots THEN UpdHeap[n].refcount ELSE 0]
  /\ refs = [n \in Ids |-> [creates |-> IF Allocated(UpdHeap, n) /\ n \in DynIds
                                         THEN 1 ELSE 0,
                            incs |-> IF n = UpdOther THEN 1 ELSE 0, decs |-> 0]]
  /\ last = NoCall
  /\ iter = NoIter
  /\ buffer = NoBuffer
  /\ copies = {}

NextUpd ==
  \/ \E self \in Roots, other \in Roots, Type \in ObjectUpdateType \ NewTypes :
       Update(self, other, Type)
  \/ \E self \in Roots, other \in Roots, Type \in NewTypes : Update(self, other, Type)
  \/ \E n \in Roots : decref(n)

SpecUpd == InitUpd /\ [][NextUpd]_vars

\* The value other holds under the key, or the target's own value.
Taken(t, o, key) ==
  IF HasKey(heap, o, key) THEN json_object_get(heap, o, key)
  ELSE json_object_get(heap, t, key)

\* C7: Update(other, OU_EXISTING) between two objects succeeds and leaves the
\* target's key set and key order unchanged: a key present in both objects ends
\* up with other's value, a key only in the target keeps its value, and no key
\* that is only in other is added.
C7_UpdateExisting ==
  [][LET t == last'.self
         o == last'.value
     IN (/\ last'.op = "Update" /\ last'.mode = "OU_EXISTING"
         /\ json_is_object(heap, t) /\ json_is_object(heap, o)) =>
          /\ last'.ok
          /\ heap'[t].keys = heap[t].keys
          /\ \A i \in 1..Len(heap[t].keys) :
               /\ heap'[t].items[i] = Taken(t, o, heap[t].keys[i])
               /\ Contents(heap', heap'[t].items[i])
                    = Contents(heap, Taken(t, o, heap[t].keys[i]))
          /\ \A key \in Keys : HasKey(heap', t, key) <=> HasKey(heap, t, key)]_vars

\* {"a": 1, "b": 2} updated from {"b": 9, "c": null} reads {"a": 1, "b": 9}.
C7_Witness ==
  /\ last.op = "Update" /\ last.mode = "OU_EXISTING" /\ last.ok
  /\ last.self = UpdTarget /\ last.value = UpdOther
  /\ heap[UpdOther].keys = <<"b", "c">>
  /\ heap[UpdTarget].keys = <<"a", "b">>
  /\ heap[UpdTarget].items = <<UpdOne, UpdNine>>
  /\ heap[UpdNine].num = 9 /\ heap[UpdNine].deleted = 0

\* What the sharing mode of the same name does with the two nodes.
Shared(Type, t, o) ==
  CASE Type = "OU_NEW" -> json_object_update(heap, t, o)
    [] Type = "OU_EXISTING_NEW" -> json_object_update_existing(heap, t, o)
    [] Type = "OU_MISSING_NEW" -> json_object_update_missing(heap, t, o)

\* The keys and values a merge of two objects leaves in the target: a key of
\* both takes other's value when `over`, a key only in other is appended in
\* other's order when `add`.
MergedKeys(t, o, add) ==
  heap[t].keys \o (IF add THEN SelectSeq(heap[o].keys, LAMBDA k : ~HasKey(heap, t, k))
                   ELSE <<>>)
MergedValue(t, o, key, over) ==
  IF HasKey(heap, t, key) /\ ~(over /\ HasKey(heap, o, key))
  THEN json_object_get(heap, t, key)
  ELSE json_object_get(heap, o, key)

\* Every node that can be read from a root the program holds is alive.
Readable(h, o) ==
  \A n \in DynIds : (Live(h, n) /\ o[n] > 0) => \A m \in Reach(h, n) : Live(h, m)

\* C10: Update(other, mode) with mode OU_NEW, OU_EXISTING_NEW or OU_MISSING_NEW
\* returns what OU_NONE, OU_EXISTING, OU_MISSING returns and leaves the same
\* entries in the target; the caller's reference to other is consumed whether
\* the call returns true or false; the merged values stay alive in the target,
\* also once other is gone.
C10_UpdateNew ==
  [][LET t == last'.self
         o == last'.value
         Type == last'.mode
     IN /\ (last'.op = "Update" /\ Type \in NewTypes) =>
             /\ last'.ok = Shared(Type, t, o).ok
             /\ last'.ok <=> (json_is_object(heap, t) /\ json_is_object(heap, o))
             /\ Live(heap', t) =>
                  /\ heap'[t].keys = Shared(Type, t, o).h[t].keys
                  /\ heap'[t].items = Shared(Type, t, o).h[t].items
             /\ (last'.ok /\ Live(heap', t)) =>
                  /\ heap'[t].keys = MergedKeys(t, o, Type # "OU_EXISTING_NEW")
                  /\ \A i \in 1..Len(heap'[t].keys) :
                       heap'[t].items[i] =
                         MergedValue(t, o, heap'[t].keys[i], Type # "OU_MISSING_NEW")
             /\ own'[o] = own[o] - 1
             /\ IF o = t \/ heap[o].refcount > 1
                THEN heap'[o].refcount = heap[o].refcount - 1
                ELSE heap'[o].deleted = 1
        /\ Readable(heap, own) => Readable(heap', own')]_vars

\* Update(other) has returned true, other is gone and the target reads
\* {"a": 1, "b": 9, "c": null}.
C10_Witness ==
  /\ last.op = "Update" /\ last.mode = "OU_NEW" /\ last.ok
  /\ last.self = UpdTarget /\ last.value = UpdOther
  /\ heap[UpdOther].deleted = 1
  /\ heap[UpdTarget].keys = <<"a", "b", "c">>
  /\ heap[UpdTarget].items = <<UpdOne, UpdNine, NullNode>>
  /\ Live(heap, UpdOne) /\ Live(heap, UpdNine)

\* Update(other) on an integer has returned false and other is gone.
C10_Refused ==
  /\ last.op = "Update" /\ last.mode \in NewTypes /\ ~last.ok
  /\ last.value = UpdOther /\ heap[UpdOther].deleted = 1

\* ------------------------------------------------------------------- Extend
RECURSIVE IncrefAll(_, _)
IncrefAll(h, q) == IF q = <<>> THEN h ELSE IncrefAll(json_incref(h, Head(q)), Tail(q))

\* An extension that copies the pointers without counting them.
json_array_extend_noref(h, a, other) ==
  IF ~json_is_array(h, a) \/ ~json_is_array(h, other) THEN [h |-> h, ok |-> FALSE]
  ELSE [h |-> [h EXCEPT ![a].items = @ \o h[other].items], ok |-> TRUE]

\* json_array_extend: other's entries are counted once more each and copied
\* behind the array's own entries.
json_array_extend(h, a, other) ==
  IF ~json_is_array(h, a) \/ ~json_is_array(h, other) THEN [h |-> h, ok |-> FALSE]
  ELSE LET h1 == IncrefAll(h, h[other].items)
       IN [h |-> [h1 EXCEPT ![a].items = @ \o h[other].items], ok |-> TRUE]

Extend(self, other) ==
  /\ Live(heap, self) /\ Live(heap, other)
  /\ LET r == json_array_extend(heap, self, other)
     IN Call(r.h, own,
             [NoCall EXCEPT !.op = "Extend", !.self = self, !.value = other, !.ok = r.ok])

\* ------------------------------------------------------------- two arrays
\* The program holds a = [1] and b = [2, true].
ExtA == FalseNode + 1
ExtX == FalseNode + 2
ExtB == FalseNode + 3
ExtY == FalseNode + 4

ExtHeap ==
  [NewNode(NewNode(NewNode(NewNode(InitHeap, ExtA, "array", 0, <<>>),
                           ExtX, "integer", 1, <<>>),
                   ExtB, "array", 0, <<>>),
           ExtY, "integer", 2, <<>>)
     EXCEPT ![ExtA].items = <<ExtX>>,
            ![ExtB].items = <<ExtY, TrueNode>>]

InitExt ==
  /\ heap = ExtHeap
  /\ own = [n \in Ids |-> IF n \in {ExtA, ExtB} THEN 1 ELSE 0]
  /\ refs = [n \in Ids |-> [creates |-> IF Allocated(ExtHeap, n) /\ n \in DynIds
                                         THEN 1 ELSE 0,
                            incs |-> 0, decs |-> 0]]
  /\ last = NoCall
  /\ iter = NoIter
  /\ buffer = NoBuffer
  /\ copies = {}

\* The nodes the program can name: its roots and what operator[] reaches.
Named == {n \in DynIds : Live(heap, n) /\ \E r \in Roots : n \in Reach(heap, r)}
Fits(self, other) == Len(heap[self].items) + Len(heap[other].items) <= ExtLen

NextExt ==
  \/ \E self \in Named, other \in Named : Fits(self, other) /\ Extend(self, other)
  \/ \E self \in Arrays : Remove_index(self, 0)
  \/ \E n \in Roots : decref(n)

SpecExt == InitExt /\ [][NextExt]_vars

\* Extend() between two arrays succeeds and puts other's elements, in other's
\* order, behind the array's own.
Appended ==
  LET a == last'.self
      b == last'.value
  IN /\ last'.ok
     /\ heap'[a].items = heap[a].items \o heap[b].items
     /\ Len(heap'[a].items) = Len(heap[a].items) + Len(heap[b].items)

ExtendStep ==
  /\ last'.op = "Extend"
  /\ json_is_array(heap, last'.self) /\ json_is_array(heap, last'.value)

\* C8 (as stated): for two different arrays, a.Extend(b) appends b's elements
\* in b's order, leaves b's contents and size unchanged and raises the count of
\* each element of b by one; releasing b afterwards leaves every element of a
\* alive.
C8_EachCountPlusOne ==
  [][/\ (ExtendStep /\ last'.self # last'.value) =>
          /\ Appended
          /\ heap'[last'.value].items = heap[last'.value].items
          /\ \A i \in 1..Len(heap[last'.value].items) :
               LET v == heap[last'.value].items[i]
               IN heap'[v].refcount = heap[v].refcount + 1
     /\ Readable(heap, own) => Readable(heap', own')]_vars

\* C8 (amended): for two different arrays a and b, a.Extend(b) appends b's
\* elements in b's order and leaves b's contents, size and count unchanged; the
\* count of a counted element rises by the number of times it occurs in b, and
\* the static true, false and null elements have no count to raise. For every
\* a and b, every element stays alive when b is released afterwards.
C8_SharedPerSlot ==
  [][/\ ExtendStep =>
          LET a == last'.self
              b == last'.value
          IN /\ Appended
             /\ a # b => heap'[b] = heap[b]
             /\ \A v \in Ids \ {a} :
                  heap'[v].refcount =
                    IF Counted(heap, v) THEN heap[v].refcount + Occ(heap, b, v)
                    ELSE heap[v].refcount
             /\ \A i \in 1..Len(heap'[a].items) :
                  Contents(heap', heap'[a].items[i]) = Contents(heap, heap'[a].items[i])
     /\ Readable(heap, own) => Readable(heap', own')]_vars

\* a.Extend(b) has made a = [1, 2, true], b was released and freed, and the
\* element 2 is still alive in a.
C8_Witness ==
  /\ last.op = "decref" /\ last.self = ExtB /\ heap[ExtB].deleted = 1
  /\ heap[ExtA].items = <<ExtX, ExtY, TrueNode>>
  /\ Live(heap, ExtY) /\ heap[ExtY].refcount = 1 /\ heap[ExtY].num = 2

\* ----------------------------------------------------------------- ToString
\* A real holds hundredths (553 is 5.53). A text is a sequence of tokens: a
\* punctuation mark, white space of n blanks, an integer, a real, or a string
\* with its characters as written between the quotes.
Tok(t, n, str) == [t |-> t, n |-> n, s |-> str]
Mark(t) == Tok(t, 0, <<>>)

RECURSIVE Pow10(_)
Pow10(k) == IF k = 0 THEN 1 ELSE 10 * Pow10(k - 1)
RECURSIVE NumDigits(_)
NumDigits(m) == IF m < 10 THEN 1 ELSE 1 + NumDigits(m \div 10)

\* jsonp_dtostr prints %.<precision>g (17 digits for precision 0, which is
\* exact for a double): the value rounded half-to-even to that many significant
\* digits; json_dumps adds ".0" where needed so that the text stays a real.
jsonp_dtostr(m, precision) ==
  IF precision = 0 \/ NumDigits(m) <= precision THEN m
  ELSE LET u == Pow10(NumDigits(m) - precision)
           q == m \div u
           r == m % u
       IN IF 2 * r > u \/ (2 * r = u /\ q % 2 = 1) THEN (q + 1) * u ELSE q * u

\* dump_string writes a quote or a backslash behind a backslash.
RECURSIVE dump_string(_)
dump_string(str) ==
  IF str = <<>> THEN <<>>
  ELSE (IF Head(str) \in {"\"", "\\"} THEN <<"\\", Head(str)>> ELSE <<Head(str)>>)
       \o dump_string(Tail(str))

\* dump_indent: a line break and depth * indent blanks, or the one blank that
\* follows a comma when there is no indent.
dump_indent(flags, depth, space) ==
  IF flags.indent > 0 THEN <<Tok("ws", flags.indent * depth, <<>>)>>
  ELSE IF space THEN <<Tok("ws", 1, <<>>)>>
  ELSE <<>>

\* do_dump: JSON_EMBED leaves out the brackets of the value it is called on and
\* is cleared for the values inside.
RECURSIVE do_dump(_, _, _, _, _)
RECURSIVE dump_entries(_, _, _, _, _)
dump_entries(h, n, flags, depth, i) ==
  LET key == IF h[n].type = "object"
             THEN <<Tok("string", 0, dump_string(<<h[n].keys[i]>>)), Mark(":"),
                    Tok("ws", 1, <<>>)>>
             ELSE <<>>
      entry == key \o do_dump(h, h[n].items[i], flags, depth + 1, FALSE)
  IN IF i = Len(h[n].items) THEN entry \o dump_indent(flags, depth, FALSE)
     ELSE entry \o <<Mark(",")>> \o dump_indent(flags, depth + 1, TRUE)
          \o dump_entries(h, n, flags, depth, i + 1)

do_dump(h, n, flags, depth, embed) ==
  CASE h[n].type \in {"null", "true", "false"} -> <<Mark(h[n].type)>>
    [] h[n].type = "integer" -> <<Tok("integer", h[n].num, <<>>)>>
    [] h[n].type = "real" ->
         <<Tok("real", jsonp_dtostr(h[n].num, flags.precision), <<>>)>>
    [] h[n].type = "string" -> <<Tok("string", 0, dump_string(h[n].str))>>
    [] h[n].type \in {"array", "object"} ->
         LET open == IF h[n].type = "array" THEN "[" ELSE "{"
             close == IF h[n].type = "array" THEN "]" ELSE "}"
         IN (IF embed THEN <<>> ELSE <<Mark(open)>>)
            \o (IF h[n].items = <<>> THEN <<>>
                ELSE dump_indent(flags, depth + 1, FALSE)
                     \o dump_entries(h, n, flags, depth, 1))
            \o (IF embed THEN <<>> ELSE <<Mark(close)>>)

\* json_dumps: without JSON_ENCODE_ANY only an array or an object is encoded;
\* the result is then a null pointer.
json_dumps(h, json, flags) ==
  IF ~flags.encode_any /\ ~json_is_array(h, json) /\ ~json_is_object(h, json)
  THEN [null |-> TRUE, str |-> <<>>]
  ELSE [null |-> FALSE, str |-> do_dump(h, json, flags, 0, flags.embed)]

\* --------------------------------------------------------------- FromString
\* lex_scan_string: a backslash stands for the character behind it; the text
\* of a string has no bare quote and does not end in a backslash.
RECURSIVE lex_scan_string(_)
NoString == [ok |-> FALSE, str |-> <<>>]

\* A scan that takes every character as it is.
lex_scan_string_raw(text) == [ok |-> TRUE, str |-> text]

lex_scan_string(text) ==
  IF text = <<>> THEN [ok |-> TRUE, str |-> <<>>]
  ELSE IF Head(text) = "\"" THEN NoString
  ELSE IF Head(text) = "\\"
  THEN IF Len(text) = 1 THEN NoString
       ELSE LET r == lex_scan_string(Tail(Tail(text)))
            IN [ok |-> r.ok, str |-> <<text[2]>> \o r.str]
  ELSE LET r == lex_scan_string(Tail(text))
       IN [ok |-> r.ok, str |-> <<Head(text)>> \o r.str]

\* lex_scan skips white space.
lex_scan(text) == SelectSeq(text, LAMBDA t : t.t # "ws")
Token(toks, i) == IF i <= Len(toks) THEN toks[i].t ELSE "eof"
Parsed(h, res, i) == [h |-> h, res |-> res, i |-> i, ok |-> TRUE]
ParseError(h, i) == [h |-> h, res |-> NULL, i |-> i, ok |-> FALSE]

RECURSIVE parse_value(_, _, _)
RECURSIVE parse_array(_, _, _, _)
RECURSIVE parse_object(_, _, _, _)

\* After "[" or ",": "]" closes an array that is still empty; otherwise a value
\* follows, and "," or "]" behind it. An error releases the array.
parse_array(h, toks, i, array) ==
  IF Token(toks, i) = "]" /\ h[array].items = <<>> THEN Parsed(h, array, i + 1)
  ELSE LET r == parse_value(h, toks, i)
           h1 == json_array_append_new(r.h, array, r.res).h
       IN IF ~r.ok THEN ParseError(json_decref(r.h, array), r.i)
          ELSE IF Token(toks, r.i) = "," THEN parse_array(h1, toks, r.i + 1, array)
          ELSE IF Token(toks, r.i) = "]" THEN Parsed(h1, array, r.i + 1)
          ELSE ParseError(json_decref(h1, array), r.i)

\* After "{" or ",": a string key (one character in this model), ":", a value,
\* and "," or "}" behind it. A repeated key replaces the earlier value.
parse_object(h, toks, i, object) ==
  IF Token(toks, i) = "}" /\ h[object].items = <<>> THEN Parsed(h, object, i + 1)
  ELSE LET key == IF Token(toks, i) = "string" THEN lex_scan_string(toks[i].s)
                  ELSE NoString
           r == parse_value(h, toks, i + 2)
           h1 == json_object_set_new(r.h, object, key.str[1], r.res).h
       IN IF ~key.ok \/ Len(key.str) # 1 \/ Token(toks, i + 1) # ":"
          THEN ParseError(json_decref(h, object), i)
          ELSE IF ~r.ok THEN ParseError(json_decref(r.h, object), r.i)
          ELSE IF Token(toks, r.i) = "," THEN parse_object(h1, toks, r.i + 1, object)
          ELSE IF Token(toks, r.i) = "}" THEN Parsed(h1, object, r.i + 1)
          ELSE ParseError(json_decref(h1, object), r.i)

parse_value(h, toks, i) ==
  LET t == Token(toks, i)
      c == Fresh(h)
      str == lex_scan_string(toks[i].s)
  IN CASE t = "null" -> Parsed(h, NullNode, i + 1)
       [] t = "true" -> Parsed(h, TrueNode, i + 1)
       [] t = "false" -> Parsed(h, FalseNode, i + 1)
       [] t \in {"integer", "real"} ->
            Parsed(NewNode(h, c, t, toks[i].n, <<>>), c, i + 1)
       [] t = "string" ->
            IF str.ok THEN Parsed(NewNode(h, c, "string", 0, str.str), c, i + 1)
            ELSE ParseError(h, i)
       [] t = "[" -> parse_array(NewNode(h, c, "array", 0, <<>>), toks, i + 1, c)
       [] t = "{" -> parse_object(NewNode(h, c, "object", 0, <<>>), toks, i + 1, c)
       [] OTHER -> ParseError(h, i)

\* json_loads: a null pointer is refused; without JSON_DECODE_ANY the text
\* starts with "[" or "{"; nothing but white space follows the value.
json_loads(h, buf, decode_any) ==
  LET toks == lex_scan(buf.str)
      r == parse_value(h, toks, 1)
  IN IF buf.null \/ (~decode_any /\ Token(toks, 1) \notin {"[", "{"})
     THEN ParseError(h, 1)
     ELSE IF r.ok /\ r.i # Len(toks) + 1 THEN ParseError(json_decref(r.h, r.res), r.i)
     ELSE r

\* The encoding flags: JSON_INDENT(n), JSON_REAL_PRECISION(n), JSON_ENCODE_ANY
\* and JSON_EMBED; all of them keep the keys in iteration order.
EncodeFlags ==
  [indent : {0, 4}, precision : 0..RealDigits, encode_any : BOOLEAN, embed : BOOLEAN]

JSON_ToString(self, flags) ==
  /\ Live(heap, self)
  /\ LET r == json_dumps(heap, self, flags)
     IN buffer' = [null |-> r.null, str |-> r.str, json |-> self, flags |-> flags,
                   dumped |-> Contents(heap, self)]
  /\ last' = [NoCall EXCEPT !.op = "ToString", !.self = self]
  /\ UNCHANGED <<heap, own, refs, iter, copies>>

\* The nodes a text asks for: one for each bracket, number and string that is
\* no key.
NodesIn(text) ==
  LET toks == lex_scan(text)
  IN Cardinality({i \in 1..Len(toks) :
                    \/ toks[i].t \in {"[", "{", "integer", "real"}
                    \/ toks[i].t = "string" /\ Token(toks, i + 1) # ":"})

\* FromString() on the text the last ToString() returned.
FromString(decode_any) ==
  /\ buffer.json # NULL /\ HasRoom(heap, NodesIn(buffer.str))
  /\ LET r == json_loads(heap, buffer, decode_any)
     IN /\ heap' = r.h
        /\ own' = IF Counted(r.h, r.res) THEN [own EXCEPT ![r.res] = @ + 1] ELSE own
        /\ last' = [NoCall EXCEPT !.op = "FromString", !.res = r.res, !.ok = r.ok,
                                  !.mode = IF decode_any THEN "JSON_DECODE_ANY" ELSE ""]
        /\ copies' = copies \cup {<<buffer.json, r.res>>}
  /\ UNCHANGED <<buffer, refs, iter>>

\* ------------------------------------------------------ trees to be written
\* The program has built {"b": [r, "q\"\\"], "a": null}, [{"c": r}, 7] or the
\* real r alone, for a real r of up to three digits.
Reals == {150, 200, 250, 553, 996}
RtRoot == FalseNode + 1
RtInner == FalseNode + 2
RtReal == FalseNode + 3
RtLeaf == FalseNode + 4

RtHeap(kind, r) ==
  CASE kind = "object" ->
         [NewNode(NewNode(NewNode(NewNode(InitHeap, RtRoot, "object", 0, <<>>),
                                  RtInner, "array", 0, <<>>),
                          RtReal, "real", r, <<>>),
                  RtLeaf, "string", 0, <<"q", "\"", "\\">>)
            EXCEPT ![RtRoot].keys = <<"b", "a">>,
                   ![RtRoot].items = <<RtInner, NullNode>>,
                   ![RtInner].items = <<RtReal, RtLeaf>>]
    [] kind = "array" ->
         [NewNode(NewNode(NewNode(NewNode(InitHeap, RtRoot, "array", 0, <<>>),
                                  RtInner, "object", 0, <<>>),
                          RtReal, "real", r, <<>>),
                  RtLeaf, "integer", 7, <<>>)
            EXCEPT ![RtRoot].items = <<RtInner, RtLeaf>>,
                   ![RtInner].keys = <<"c">>,
                   ![RtInner].items = <<RtReal>>]
    [] kind = "real" -> NewNode(InitHeap, RtRoot, "real", r, <<>>)

InitRT ==
  /\ \E kind \in {"object", "array", "real"}, r \in Reals : heap = RtHeap(kind, r)
  /\ own = [n \in Ids |-> IF n = RtRoot THEN 1 ELSE 0]
  /\ refs = [n \in Ids |-> [creates |-> IF Allocated(heap, n) /\ n \in DynIds
                                         THEN 1 ELSE 0,
                            incs |-> 0, decs |-> 0]]
  /\ last = NoCall
  /\ iter = NoIter
  /\ buffer = NoBuffer
  /\ copies = {}

\* The program writes a tree it can name, reads the text back once and
\* releases what it holds.
NextRT ==
  \/ \E self \in Named, flags \in EncodeFlags : ~Copied /\ JSON_ToString(self, flags)
  \/ \E decode_any \in BOOLEAN : ~Copied /\ FromString(decode_any)
  \/ \E n \in Roots : decref(n)

SpecRT == InitRT /\ [][NextRT]_vars

\* The digits a real needs, and whether `precision` digits write every real of
\* a value exactly (precision 0 writes 17 digits).
RECURSIVE SigDigits(_)
SigDigits(m) == IF m > 0 /\ m % 10 = 0 THEN SigDigits(m \div 10) ELSE NumDigits(m)
RECURSIVE Exact(_, _)
Exact(d, precision) ==
  /\ d.type = "real" => precision = 0 \/ SigDigits(d.num) <= precision
  /\ \A i \in 1..Len(d.items) : Exact(d.items[i], precision)

\* The value with every real as JSON_REAL_PRECISION writes it.
RECURSIVE Written(_, _)
Written(d, precision) ==
  [d EXCEPT !.num = IF d.type = "real" THEN jsonp_dtostr(@, precision) ELSE @,
            !.items = [i \in 1..Len(d.items) |-> Written(d.items[i], precision)]]

IsContainer(d) == d.type \in {"object", "array"}
ReadBack == Contents(heap', last'.res)

\* C9 (as stated): FromString(v.ToString(flags)) returns a tree deep-equal to
\* v for every object or array v and every combination of the indent and
\* real-precision flags (JSON_ENCODE_ANY allowed, JSON_EMBED left out).
C9_RoundTripAnyPrecision ==
  [][(last'.op = "FromString" /\ IsContainer(buffer.dumped) /\ ~buffer.flags.embed) =>
       last'.res # NULL /\ ReadBack = buffer.dumped]_vars

\* C9 (amended): when the root is an object or array, or JSON_ENCODE_ANY and
\* JSON_DECODE_ANY are both passed, and JSON_EMBED is not passed,
\* FromString(v.ToString(flags)) returns a tree that equals v with every real
\* rounded to the JSON_REAL_PRECISION digits; it is deep-equal to v (scalars,
\* key order, array order) exactly when those digits write every real of v
\* exactly, as with no precision flag. With a scalar root and no
\* JSON_ENCODE_ANY, ToString() returns a null pointer and FromString() fails;
\* without JSON_DECODE_ANY FromString() refuses a scalar text; with JSON_EMBED
\* the text of an object or array does not read back as v.
C9_RoundTripExact ==
  [][LET d == buffer.dumped
         f == buffer.flags
         any == last'.mode = "JSON_DECODE_ANY"
     IN last'.op = "FromString" =>
          /\ (~IsContainer(d) /\ ~f.encode_any) => buffer.null /\ last'.res = NULL
          /\ (~IsContainer(d) /\ ~any) => last'.res = NULL
          /\ (IsContainer(d) /\ f.embed) => last'.res = NULL \/ ReadBack # d
          /\ (IsContainer(d) /\ ~f.embed) \/ (~IsContainer(d) /\ f.encode_any /\ any) =>
               /\ last'.res # NULL /\ last'.ok
               /\ ReadBack = Written(d, f.precision)
               /\ ReadBack = d <=> Exact(d, f.precision)
               /\ \A n \in Reach(heap', last'.res) : Counted(heap', n) => ~Allocated(heap, n)
          /\ \A n \in Ids : Live(heap, n) => heap'[n] = heap[n]]_vars

\* {"b": [5.53, "q\"\\"], "a": null} written with JSON_INDENT(4) and
\* JSON_REAL_PRECISION(3) has been read back deep-equal.
C9_Witness ==
  /\ last.op = "FromString" /\ last.res # NULL
  /\ buffer.flags.indent = 4 /\ buffer.flags.precision = 3 /\ ~buffer.flags.embed
  /\ buffer.dumped.keys = <<"b", "a">>
  /\ buffer.dumped.items[1].items[1].num = 553
  /\ buffer.dumped.items[1].items[2].str = <<"q", "\"", "\\">>
  /\ Contents(heap, last.res) = buffer.dumped

\* The same tree written with a precision of 2 reads back with 5.5 for 5.53.
C9_Lossy ==
  /\ last.op = "FromString" /\ last.res # NULL
  /\ buffer.flags.precision = 2 /\ ~buffer.flags.embed
  /\ buffer.dumped.keys = <<"b", "a">>
  /\ buffer.dumped.items[1].items[1].num = 553
  /\ heap[heap[heap[last.res].items[1]].items[1]].num = 550

\* ----------------------------------------------------------------- GetValue
\* json_boolean_value is json_is_true; json_integer_value (above) and
\* json_integer_high give the two words of an integer and 0 for any other
\* node; json_number_value gives a real's payload, an integer's value as a
\* double, and 0.0 for any other node; json_string_value gives a pointer to the
\* text of a string and a null pointer for any other node.
json_boolean_value(h, n) == n # NULL /\ h[n].type = "true"

json_integer_high(h, n) == IF n # NULL /\ h[n].type = "integer" THEN h[n].hi ELSE 0

\* A number read that answers 0.0 for every node that is no real.
json_number_value_real(h, n) ==
  IF n # NULL /\ h[n].type = "real"
  THEN [NoRet EXCEPT !.num = h[n].num, !.unit = "hundredth"]
  ELSE NoRet

json_number_value(h, n) ==
  IF n # NULL /\ h[n].type = "integer"
  THEN [NoRet EXCEPT !.hi = h[n].hi, !.num = h[n].num]
  ELSE IF n # NULL /\ h[n].type = "real"
  THEN [NoRet EXCEPT !.num = h[n].num, !.unit = "hundredth"]
  ELSE NoRet

json_string_value(h, n) == IF n # NULL /\ h[n].type = "string" THEN n ELSE NULL

\* A double is a float as it stands when it is a whole number below 2^24 in
\* size or, in hundredths, a multiple of a quarter.
FitsFloat(d) ==
  IF d.unit = "hundredth" THEN d.num % 25 = 0
  ELSE d.hi = 0 /\ d.num \in -16777216..16777216

GetTypes == {"bool", "float", "double", "int", "json_int_t", "const char*", "long"}

\* The return statement converts to T: to float by rounding, to int by keeping
\* the low word. A T the function does not know prints a message and returns {}.
GetValue(self, T) ==
  /\ Live(heap, self)
  /\ LET number == json_number_value(heap, self)
         ret == CASE T = "bool" -> [NoRet EXCEPT !.bool = json_boolean_value(heap, self)]
                  [] T = "double" -> number
                  [] T = "float" -> [number EXCEPT !.narrowed = ~FitsFloat(number)]
                  [] T = "json_int_t" ->
                       [NoRet EXCEPT !.hi = json_integer_high(heap, self),
                                     !.num = json_integer_value(heap, self)]
                  [] T = "int" ->
                       [NoRet EXCEPT !.num = json_integer_value(heap, self),
                                     !.narrowed = json_integer_high(heap, self) # 0]
                  [] T = "const char*" -> [NoRet EXCEPT !.ptr = json_string_value(heap, self)]
                  [] OTHER -> NoRet
     IN last' = [NoCall EXCEPT !.op = "GetValue", !.self = self, !.mode = T, !.ret = ret]
  /\ UNCHANGED <<heap, own, refs, iter, buffer, copies>>

\* --------------------------------------------------- one node of every tag
\* The program holds an integer, a real, a string, an array and an object and
\* can name true, false and null.
GetInt == FalseNode + 1
GetReal == FalseNode + 2
GetString == FalseNode + 3
GetArray == FalseNode + 4
GetObject == FalseNode + 5
GetNodes == {GetInt, GetReal, GetString, GetArray, GetObject}

\* 0, 7, -3 and 2^32 + 5.
IntPayloads == {[hi |-> 0, num |-> 0], [hi |-> 0, num |-> 7], [hi |-> 0, num |-> -3],
                [hi |-> 1, num |-> 5]}

GetHeap(i, r) ==
  [NewNode(NewNode(NewNode(NewNode(NewNode(InitHeap,
      GetInt, "integer", i.num, <<>>), GetReal, "real", r, <<>>),
      GetString, "string", 0, <<"s">>), GetArray, "array", 0, <<>>),
      GetObject, "object", 0, <<>>)
     EXCEPT ![GetInt].hi = i.hi]

InitGet ==
  /\ \E i \in IntPayloads, r \in Reals : heap = GetHeap(i, r)
  /\ own = [n \in Ids |-> IF n \in GetNodes THEN 1 ELSE 0]
  /\ refs = [n \in Ids |-> [creates |-> IF n \in GetNodes THEN 1 ELSE 0,
                            incs |-> 0, decs |-> 0]]
  /\ last = NoCall
  /\ iter = NoIter
  /\ buffer = NoBuffer
  /\ copies = {}

NextGet ==
  \/ \E self \in Roots, T \in GetTypes : GetValue(self, T)
  \/ \E self \in Statics, T \in GetTypes : GetValue(self, T)

SpecGet == InitGet /\ [][NextGet]_vars

\* The tags whose payload has the type T, and the zero value of every T.
TagsOf(T) ==
  CASE T = "bool" -> {"true", "false"}
    [] T \in {"int", "json_int_t"} -> {"integer"}
    [] T \in {"float", "double"} -> {"real"}
    [] T = "const char*" -> {"string"}
    [] OTHER -> {}
IsZero(ret) == ~ret.bool /\ ret.hi = 0 /\ ret.num = 0 /\ ret.ptr = NULL

\* The payload of the node, returned as it is stored.
IsPayload(ret, n) ==
  CASE heap[n].type \in {"true", "false"} -> ret.bool = (heap[n].type = "true")
    [] heap[n].type = "integer" ->
         ret.hi = heap[n].hi /\ ret.num = heap[n].num /\ ret.unit = "one" /\ ~ret.narrowed
    [] heap[n].type = "real" ->
         ret.hi = 0 /\ ret.num = heap[n].num /\ ret.unit = "hundredth" /\ ~ret.narrowed
    [] heap[n].type = "string" -> ret.ptr = n
    [] OTHER -> FALSE

\* C11 (as stated, for T = bool, json_int_t, double and const char*, which
\* convert nothing on return): GetValue<T>() returns T's zero value on a node
\* whose tag does not match T and the stored payload on a node whose tag
\* matches; it raises no error and leaves the node unchanged.
C11_ZeroOnMismatch ==
  [][(last'.op = "GetValue" /\ last'.mode \in {"bool", "json_int_t", "double", "const char*"}) =>
       LET n == last'.self
           ret == last'.ret
       IN /\ heap' = heap
          /\ heap[n].type \notin TagsOf(last'.mode) => IsZero(ret)
          /\ heap[n].type \in TagsOf(last'.mode) => IsPayload(ret, n)]_vars

\* C11 (amended): GetValue<T>() raises no error and leaves the node unchanged.
\* On a node whose tag matches T it returns the stored payload, converted to T:
\* unchanged for bool, json_int_t, double and const char*, the low 32 bits for
\* int (the payload when it fits in an int), the nearest float for float. On a
\* node whose tag does not match it returns T's zero value, except that
\* GetValue<float>() and GetValue<double>() on an integer node return the
\* integer's value as a real. A T the function does not know returns {}.
C11_NumberCoercion ==
  [][last'.op = "GetValue" =>
       LET n == last'.self
           T == last'.mode
           ret == last'.ret
           tag == heap[n].type
       IN /\ heap' = heap /\ own' = own
          /\ (tag \in TagsOf(T) /\ T \in {"bool", "json_int_t", "double", "const char*"}) =>
               IsPayload(ret, n)
          /\ (tag \in TagsOf(T) /\ T = "int") =>
               /\ ret.hi = 0 /\ ret.num = heap[n].num
               /\ ret.narrowed <=> heap[n].hi # 0
          /\ (tag \in TagsOf(T) /\ T = "float") =>
               /\ ret.num = heap[n].num /\ ret.unit = "hundredth"
               /\ ret.narrowed <=> heap[n].num % 25 # 0
          /\ (tag = "integer" /\ T \in {"float", "double"}) =>
               /\ ret.hi = heap[n].hi /\ ret.num = heap[n].num /\ ret.unit = "one"
               /\ IsZero(ret) <=> (heap[n].hi = 0 /\ heap[n].num = 0)
               /\ ret.narrowed <=> (T = "float" /\ heap[n].hi # 0)
          /\ (tag \notin TagsOf(T) /\ ~(tag = "integer" /\ T \in {"float", "double"})) =>
               IsZero(ret) /\ ~ret.narrowed]_vars

\* GetValue<double>() on the integer 7 has returned 7.0.
C11_Witness ==
  /\ last.op = "GetValue" /\ last.mode = "double" /\ last.self = GetInt
  /\ heap[GetInt].type = "integer" /\ heap[GetInt].num = 7 /\ heap[GetInt].hi = 0
  /\ last.ret.num = 7 /\ last.ret.unit = "one"

\* GetValue<int>() on the integer 2^32 + 5 has returned 5.
C11_Narrowed ==
  /\ last.op = "GetValue" /\ last.mode = "int" /\ last.self = GetInt
  /\ heap[GetInt].hi = 1 /\ heap[GetInt].num = 5
  /\ last.ret.num = 5 /\ last.ret.hi = 0 /\ last.ret.narrowed

====
